---------------------------- MODULE Spec2Model ----------------------------
(***************************************************************************)
(* Model of the casbin policy storage actions of sqlx-adapter              *)
(* (src/src/actions.rs, src/src/models.rs), postgres build.                *)
(*                                                                         *)
(* A string is a sequence of one-character strings ("ab" is <<"a","b">>),  *)
(* so that LIKE patterns and identifier characters can be inspected.       *)
(* A stored row is a CasbinRule without its id; the table is a bag of      *)
(* rows, the multiplicity of a row standing for the number of ids that     *)
(* carry the same seven columns.                                           *)
(***************************************************************************)
EXTENDS Naturals, Sequences, FiniteSets, Bags

VARIABLES
    table_name,   \* SqlxAdapter.table_name, the name every statement interpolates
    created,      \* whether the CREATE TABLE of new_with_table_name has succeeded
    table,        \* committed content of the table: a bag of rows
    is_filtered,  \* SqlxAdapter.is_filtered
    last          \* the last call: operation, arguments, outcome, table before it

vars == <<table_name, created, table, is_filtered, last>>

----------------------------------------------------------------------------
(* Bounds and input universes *)

\* longest list handed to add_policies, remove_policies and save_policy
MaxBatch == 2

\* number of v columns: rule.resize(6, ..)
Width == 6

E  == <<>>
A  == <<"a">>
B  == <<"b">>
AB == <<"a", "b">>

P  == <<"p">>
G  == <<"g">>
G2 == <<"g", "2">>
X  == <<"x">>

\* a NewCasbinRule / the seven columns of a CasbinRule
Row(pt, r) ==
    [ptype |-> pt, v0 |-> r[1], v1 |-> r[2], v2 |-> r[3],
     v3 |-> r[4], v4 |-> r[5], v5 |-> r[6]]

\* column v_i of a row, i in 0..5
Col(row, i) ==
    CASE i = 0 -> row.v0
      [] i = 1 -> row.v1
      [] i = 2 -> row.v2
      [] i = 3 -> row.v3
      [] i = 4 -> row.v4
      [] OTHER -> row.v5

\* table names handed to the engine: "casbin_rule", the name fn new passes,
\* and "t;x", a name with a character outside [A-Za-z0-9_.]
TableNames ==
    { <<"c", "a", "s", "b", "i", "n", "_", "r", "u", "l", "e">>,
      <<"t", ";", "x">> }

\* rows offered to the insert operations
InsRows ==
    { Row(P,  <<A, B, E, E, E, E>>),
      Row(P,  <<A, B, A, B, A, B>>),
      Row(P,  <<B, B, A, B, A, B>>),
      Row(G,  <<A, B, E, E, E, E>>),
      Row(G2, <<AB, E, E, E, E, E>>),
      Row(X,  <<A, E, E, E, E, E>>) }

\* rows offered to the batch operations
BatchRows ==
    { Row(P, <<A, B, E, E, E, E>>),
      Row(P, <<A, B, A, B, A, B>>),
      Row(G, <<A, B, E, E, E, E>>) }

\* ptypes offered to the delete operations
DelPtypes == {P, G}

\* rules (of any arity) offered to remove_policy
DelRules ==
    { <<A, B>>, <<A, B, E>>, <<A, B, A, B, A, B>>, <<B, B, A, B, A, B>>,
      <<A, B, A, B, A, A>>, <<>> }

\* ptypes offered to remove_policies
BatchDelPtypes == {P}

\* rules offered to remove_policies
BatchDelRules == { <<A, B>>, <<A, B, E>>, <<A, B, A, B, A, B>> }

\* field_values offered to remove_filtered_policy
FilterValues ==
    { <<>>, <<B>>, <<A, B>>, <<E, B>>, <<A, B, A, B, A, B>>, <<B, A, B, A, B>>,
      <<A, B, A, B, A, B, A>> }

\* Filter.g and Filter.p offered to load_filtered_policy
GroupingFilters ==
    { <<>>, <<A>>, <<A, E, E, E, E, E>>, <<E, B>>, <<<<"a", "%">>>>, <<<<"_">>>> }

PolicyFilters ==
    { <<>>, <<E, E, E, E, E, E>>, <<A, B>>, <<E, E, E, E, E, B>>, <<<<"%", "b">>>> }

\* sequences over S of length at most n
SeqUpTo(S, n) == UNION { [1..k -> S] : k \in 0..n }

----------------------------------------------------------------------------
(* Rule normalisation *)

\* resize(6, " "): the padding is a blank, not the empty string
normalize_pad_blank(rule) ==
    [i \in 1..Width |-> IF i <= Len(rule) THEN rule[i] ELSE <<" ">>]

\* fn normalize_casbin_rule: rule.resize(6, String::new())
normalize_casbin_rule(rule) ==
    [i \in 1..Width |-> IF i <= Len(rule) THEN rule[i] ELSE E]

\* absent bind value (Option::None, SQL NULL)
None == [none |-> TRUE]

Some(x) == [some |-> x]

\* every string kept as Some, the empty ones too
normalize_option_keeps_empty(rule) ==
    [i \in 1..Width |-> IF i <= Len(rule) THEN Some(rule[i]) ELSE None]

\* fn normalize_casbin_rule_option: empty strings become None, resize(6, None)
normalize_casbin_rule_option(rule) ==
    [i \in 1..Width |->
        IF i <= Len(rule)
        THEN (IF rule[i] = E THEN None ELSE Some(rule[i]))
        ELSE None]

----------------------------------------------------------------------------
(* The store: what each statement of actions.rs does to a table *)

\* the rows of bag t that are in set D, with their multiplicities
Restrict(t, D) == [r \in D |-> t[r]]

\* a DELETE whose WHERE clause selects the rows hit: the number of rows
\* affected and the table left
Deleted(t, hit) ==
    [err |-> "", n |-> BagCardinality(Restrict(t, hit)),
     t |-> Restrict(t, DOMAIN t \ hit)]

\* a table created without the UNIQUE constraint
NoUniqueConstraint(t, row) == FALSE

\* UNIQUE(ptype, v0, v1, v2, v3, v4, v5) of the CREATE TABLE statement
UniqueViolation(t, row) == BagIn(row, t)

\* INSERT INTO t (ptype, v0..v5) VALUES (..): a database error on a
\* duplicate, else one row affected
SqlInsert(t, row) ==
    IF UniqueViolation(t, row)
    THEN [err |-> "Database", n |-> 0, t |-> t]
    ELSE [err |-> "", n |-> 1, t |-> t (+) SetToBag({row})]

\* an exact WHERE clause that leaves out ptype = $1
ExactWhereNoPtype(row, pt, rule) ==
    \A i \in 0..(Width - 1) : Col(row, i) = rule[i + 1]

\* WHERE ptype = $1 AND v0 = $2 AND .. AND v5 = $7
ExactWhere(row, pt, rule) ==
    /\ row.ptype = pt
    /\ \A i \in 0..(Width - 1) : Col(row, i) = rule[i + 1]

\* DELETE FROM t WHERE <exact>
SqlDeleteExact(t, pt, rule) ==
    Deleted(t, { row \in DOMAIN t : ExactWhere(row, pt, rule) })

\* DELETE FROM t
SqlDeleteAll(t) ==
    [err |-> "", n |-> BagCardinality(t), t |-> EmptyBag]


\* COALESCE(v_i, $k): the arguments the other way round
CoalesceSwapped(value, bind) == TRUE

\* (v_i is NULL OR v_i = COALESCE($k, v_i)) for one column and its bind value;
\* the columns are NOT NULL
CoalesceMatch(value, bind) ==
    IF bind = None THEN TRUE ELSE value = bind.some

\* one statement text, the one of field_index 0, for every field_index
FilteredColumnsAll(field_index) == <<0, 1, 2, 3, 4, 5>>

\* the columns the statement of remove_filtered_policy constrains, in the
\* order of its placeholders $2, $3, ..: one statement text per field_index
FilteredColumns(field_index) ==
    IF field_index = 5 THEN <<5>>
    ELSE IF field_index = 4 THEN <<4, 5>>
    ELSE IF field_index = 3 THEN <<3, 4, 5>>
    ELSE IF field_index = 2 THEN <<2, 3, 4, 5>>
    ELSE IF field_index = 1 THEN <<1, 2, 3, 4, 5>>
    ELSE <<0, 1, 2, 3, 4, 5>>

\* field_values.iter().skip(field_index): value i bound to column v_i
FilteredBindsAbsolute(field_index, field_values) ==
    SubSeq(field_values, field_index + 1, Width)

\* field_values.iter().take(6 - field_index): the values bound after ptype
FilteredBinds(field_index, field_values) ==
    SubSeq(field_values, 1, Width - field_index)

\* DELETE FROM t WHERE ptype = $1 AND (v_i is NULL OR v_i = COALESCE($k, v_i)) ..
\* a statement with a placeholder left unbound is refused by the store
SqlDeleteFiltered(t, pt, cols, binds) ==
    IF Len(binds) # Len(cols)
    THEN [err |-> "Database", n |-> 0, t |-> t]
    ELSE Deleted(t, { row \in DOMAIN t :
                        /\ row.ptype = pt
                        /\ \A j \in 1..Len(cols) :
                                CoalesceMatch(Col(row, cols[j]), binds[j]) })

\* s LIKE pat: % matches any run of characters, _ any one character
RECURSIVE Like(_, _)
Like(s, pat) ==
    IF pat = <<>> THEN s = <<>>
    ELSE IF Head(pat) = "%"
         THEN Like(s, Tail(pat)) \/ (s # <<>> /\ Like(Tail(s), pat))
         ELSE /\ s # <<>>
              /\ (Head(pat) = "_" \/ Head(pat) = Head(s))
              /\ Like(Tail(s), Tail(pat))

\* fn filtered_where_values: "%" where the filter has "" or no entry
FilterPatterns(f) ==
    [i \in 1..Width |-> IF i <= Len(f) /\ f[i] # E THEN f[i] ELSE <<"%">>]

filtered_where_values(filter) ==
    [g |-> FilterPatterns(filter.g), p |-> FilterPatterns(filter.p)]

\* the second branch bound to $1..$6, the grouping patterns, again
FilteredWhereOneFilter(row, g_filter, p_filter) ==
    \/ /\ Like(row.ptype, <<"g", "%">>)
       /\ \A i \in 0..(Width - 1) : Like(Col(row, i), g_filter[i + 1])
    \/ /\ Like(row.ptype, <<"p", "%">>)
       /\ \A i \in 0..(Width - 1) : Like(Col(row, i), g_filter[i + 1])

\* (ptype LIKE 'g%' AND v0 LIKE $1 AND .. AND v5 LIKE $6) OR
\* (ptype LIKE 'p%' AND v0 LIKE $7 AND .. AND v5 LIKE $12)
FilteredWhere(row, g_filter, p_filter) ==
    \/ /\ Like(row.ptype, <<"g", "%">>)
       /\ \A i \in 0..(Width - 1) : Like(Col(row, i), g_filter[i + 1])
    \/ /\ Like(row.ptype, <<"p", "%">>)
       /\ \A i \in 0..(Width - 1) : Like(Col(row, i), p_filter[i + 1])

\* SELECT id, ptype, v0, .., v5 FROM t WHERE <filtered>
SqlSelectFiltered(t, g_filter, p_filter) ==
    Restrict(t, { row \in DOMAIN t : FilteredWhere(row, g_filter, p_filter) })

\* a statement sent to the store: it errors when the table does not exist or
\* when the store fails at this statement, else it has the effect res
Exec(up, failed, t, res) ==
    IF ~up \/ failed THEN [err |-> "Io", n |-> 0, t |-> t] ELSE res

----------------------------------------------------------------------------
(* The operations of actions.rs, as functions from the table before the call *)
(* to the outcome.  fail is the number of the store interaction at which the *)
(* store fails (0: never); up is whether the table exists.                   *)

\* outcome of a call: Ok(val) or Err(err), the committed table afterwards,
\* the number of statements naming the table that were sent, the rows returned
Ok(val, t, issued) ==
    [ok |-> TRUE, err |-> "", val |-> val, t |-> t, issued |-> issued,
     rows |-> EmptyBag]

Err(err, t, issued) ==
    [ok |-> FALSE, err |-> err, val |-> FALSE, t |-> t, issued |-> issued,
     rows |-> EmptyBag]

OkRows(rows, t, issued) ==
    [ok |-> TRUE, err |-> "", val |-> FALSE, t |-> t, issued |-> issued,
     rows |-> rows]

\* pub async fn new_with_table_name: CREATE TABLE IF NOT EXISTS
new_with_table_name(t, up, fail) ==
    IF fail = 1 THEN [ok |-> FALSE, up |-> up] ELSE [ok |-> TRUE, up |-> TRUE]

\* an INSERT that errors reported as Ok(false)
add_policy_error_as_false(t, up, rule, fail) ==
    LET res == Exec(up, fail = 1, t, SqlInsert(t, rule)) IN
    IF res.err # "" THEN Ok(FALSE, t, 1) ELSE Ok(res.n = 1, res.t, 1)

\* async fn add_policy: one INSERT on the pool, rows_affected == 1
add_policy(t, up, rule, fail) ==
    LET res == Exec(up, fail = 1, t, SqlInsert(t, rule)) IN
    IF res.err # "" THEN Err(res.err, t, 1) ELSE Ok(res.n = 1, res.t, 1)

\* async fn remove_policy: normalize, one exact DELETE, rows_affected == 1
remove_policy(t, up, pt, rule, fail) ==
    LET r   == normalize_casbin_rule(rule)
        res == Exec(up, fail = 1, t, SqlDeleteExact(t, pt, r))
    IN  IF res.err # "" THEN Err(res.err, t, 1) ELSE Ok(res.n = 1, res.t, 1)

\* async fn remove_filtered_policy: rows_affected >= 1
remove_filtered_policy(t, up, pt, field_index, field_values, fail) ==
    LET fv    == normalize_casbin_rule_option(field_values)
        cols  == FilteredColumns(field_index)
        binds == FilteredBinds(field_index, fv)
        res   == Exec(up, fail = 1, t, SqlDeleteFiltered(t, pt, cols, binds))
    IN  IF res.err # "" THEN Err(res.err, t, 1) ELSE Ok(res.n >= 1, res.t, 1)

\* async fn clear_policy: DELETE FROM t, Ok(())
clear_policy(t, up, fail) ==
    LET res == Exec(up, fail = 1, t, SqlDeleteAll(t)) IN
    IF res.err # "" THEN Err(res.err, t, 1) ELSE Ok(TRUE, res.t, 1)

\* the SELECT of load_filtered_policy with every pattern "%"
load_policy_by_ptype(t, up, fail) ==
    LET all == [i \in 1..Width |-> <<"%">>] IN
    IF ~up \/ fail = 1 THEN Err("Io", t, 1)
    ELSE OkRows(SqlSelectFiltered(t, all, all), t, 1)

\* async fn load_policy: SELECT of every row
load_policy(t, up, fail) ==
    IF ~up \/ fail = 1 THEN Err("Io", t, 1) ELSE OkRows(t, t, 1)

\* async fn load_filtered_policy (postgres)
load_filtered_policy(t, up, filter, fail) ==
    LET w == filtered_where_values(filter) IN
    IF ~up \/ fail = 1 THEN Err("Io", t, 1)
    ELSE OkRows(SqlSelectFiltered(t, w.g, w.p), t, 1)

\* the table name written in the statement text of the sqlite and mysql
\* variants of load_filtered_policy
casbin_rule == <<"c", "a", "s", "b", "i", "n", "_", "r", "u", "l", "e">>

\* async fn load_filtered_policy (sqlite): takes no table name, selects from
\* casbin_rule, and binds no value to $1..$12 (the patterns are handed to
\* format!, whose text has no {} for them).  name is the table the store
\* holds; a SELECT from another table errors.  sqlite reads an unbound
\* parameter as NULL, and v LIKE NULL selects no row.
load_filtered_policy_sqlite(t, up, name, filter, fail) ==
    LET w == filtered_where_values(filter) IN
    IF name # casbin_rule THEN Err("Database", t, 1)
    ELSE IF ~up \/ fail = 1 THEN Err("Io", t, 1)
    ELSE OkRows(EmptyBag, t, 1)

\* async fn load_filtered_policy (mysql): as the sqlite variant, with twelve
\* `?` and no value bound; the server refuses to execute the statement
load_filtered_policy_mysql(t, up, name, filter, fail) ==
    LET w == filtered_where_values(filter) IN
    IF name # casbin_rule THEN Err("Database", t, 1)
    ELSE IF ~up \/ fail = 1 THEN Err("Io", t, 1)
    ELSE Err("Database", t, 1)

\* a handler that leaves through `?` commits what it has done so far
RollbackKeepsWork(before, work) == work

\* what is committed when a handler returns through `?` with the transaction
\* still open: the Transaction is dropped, which rolls it back
Rollback(before, work) == before

\* the test on an INSERT inside a transaction: rows_affected(&n) == 1
InsertedOne(n) == n = 1

\* a DELETE that matches nothing counts as done
DeletedAtMostOne(n) == n <= 1

\* the test on a DELETE inside a transaction: rows_affected(&n) == 1
DeletedOne(n) == n = 1

\* the INSERT loop of add_policies and save_policy on the transaction: rule k
\* is store interaction k + base; stops at the first statement that errors or
\* does not affect exactly one row
RECURSIVE InsertLoop(_, _, _, _, _, _)
InsertLoop(work, up, rules, k, base, fail) ==
    IF k > Len(rules) THEN [err |-> "", t |-> work, issued |-> k - 1]
    ELSE LET res == Exec(up, fail = k + base, work, SqlInsert(work, rules[k])) IN
         IF res.err # "" THEN [err |-> res.err, t |-> work, issued |-> k]
         ELSE IF ~InsertedOne(res.n)
              THEN [err |-> "RowNotFound", t |-> res.t, issued |-> k]
         ELSE InsertLoop(res.t, up, rules, k + 1, base, fail)

\* the DELETE loop of remove_policies on the transaction
RECURSIVE DeleteLoop(_, _, _, _, _, _)
DeleteLoop(work, up, pt, rules, k, fail) ==
    IF k > Len(rules) THEN [err |-> "", t |-> work, issued |-> k - 1]
    ELSE LET r   == normalize_casbin_rule(rules[k])
             res == Exec(up, fail = k + 1, work, SqlDeleteExact(work, pt, r))
         IN  IF res.err # "" THEN [err |-> res.err, t |-> work, issued |-> k]
             ELSE IF ~DeletedOne(res.n)
                  THEN [err |-> "RowNotFound", t |-> res.t, issued |-> k]
             ELSE DeleteLoop(res.t, up, pt, rules, k + 1, fail)

\* async fn add_policies: begin (interaction 1), one INSERT per rule
\* (2 .. N+1), commit (N+2)
add_policies(t, up, rules, fail) ==
    IF fail = 1 THEN Err("Io", t, 0)
    ELSE LET l == InsertLoop(t, up, rules, 1, 1, fail) IN
         IF l.err # "" THEN Err(l.err, Rollback(t, l.t), l.issued)
         ELSE IF fail = Len(rules) + 2 THEN Err("Io", Rollback(t, l.t), l.issued)
         ELSE Ok(TRUE, l.t, l.issued)

\* async fn remove_policies: begin (1), one exact DELETE per rule (2 .. N+1),
\* commit (N+2)
remove_policies(t, up, pt, rules, fail) ==
    IF fail = 1 THEN Err("Io", t, 0)
    ELSE LET l == DeleteLoop(t, up, pt, rules, 1, fail) IN
         IF l.err # "" THEN Err(l.err, Rollback(t, l.t), l.issued)
         ELSE IF fail = Len(rules) + 2 THEN Err("Io", Rollback(t, l.t), l.issued)
         ELSE Ok(TRUE, l.t, l.issued)

\* save_policy with the DELETE FROM t run on the pool, outside the transaction
save_policy_clear_on_pool(t, up, rules, fail) ==
    IF fail = 1 THEN Err("Io", t, 0)
    ELSE LET c == Exec(up, fail = 2, t, SqlDeleteAll(t)) IN
         IF c.err # "" THEN Err(c.err, c.t, 1)
         ELSE LET l == InsertLoop(c.t, up, rules, 1, 2, fail) IN
              IF l.err # "" THEN Err(l.err, Rollback(c.t, l.t), l.issued + 1)
              ELSE IF fail = Len(rules) + 3
                   THEN Err("Io", Rollback(c.t, l.t), l.issued + 1)
              ELSE Ok(TRUE, l.t, l.issued + 1)

\* async fn save_policy: begin (1), DELETE FROM t (2), one INSERT per rule
\* (3 .. N+2), commit (N+3)
save_policy(t, up, rules, fail) ==
    IF fail = 1 THEN Err("Io", t, 0)
    ELSE LET c == Exec(up, fail = 2, t, SqlDeleteAll(t)) IN
         IF c.err # "" THEN Err(c.err, Rollback(t, c.t), 1)
         ELSE LET l == InsertLoop(c.t, up, rules, 1, 2, fail) IN
              IF l.err # "" THEN Err(l.err, Rollback(t, l.t), l.issued + 1)
              ELSE IF fail = Len(rules) + 3
                   THEN Err("Io", Rollback(t, l.t), l.issued + 1)
              ELSE Ok(TRUE, l.t, l.issued + 1)

----------------------------------------------------------------------------
(* The state machine: one action per operation *)

NoArg == [none |-> TRUE]

\* no call outcome is pending: the engine was just constructed, or the caller
\* has taken the outcome of its previous call
NoCall ==
    [op |-> "idle", arg |-> NoArg, ok |-> TRUE, err |-> "", val |-> FALSE,
     rows |-> EmptyBag, issued |-> 0, pre |-> EmptyBag, flag |-> FALSE]

Idle == last.op = "idle"

\* the record of a call: its arguments, its outcome, and the table and the
\* flag as they were before it
Call(op, arg, res, flag) ==
    [op |-> op, arg |-> arg, ok |-> res.ok, err |-> res.err, val |-> res.val,
     rows |-> res.rows, issued |-> res.issued, pre |-> table, flag |-> flag]

Init ==
    /\ table_name \in TableNames
    /\ created = FALSE
    /\ table = EmptyBag
    /\ is_filtered = FALSE
    /\ last = NoCall

\* the outcome of a table operation becomes the new state
Apply(op, arg, res) ==
    /\ Idle
    /\ table' = res.t
    /\ last' = Call(op, arg, res, is_filtered)
    /\ UNCHANGED <<table_name, created, is_filtered>>

\* the flag set before the outcome of the load is known
FlagSetAlways(flag, ok) == TRUE

\* SqlxAdapter::load_filtered_policy sets the flag once the rows are loaded
FlagAfterFilteredLoad(flag, ok) == IF ok THEN TRUE ELSE flag

Provision ==
    \E fail \in 0..1 :
        LET res == new_with_table_name(table, created, fail) IN
        /\ Idle
        /\ created' = res.up
        /\ last' = Call("provision", [fail |-> fail],
                        IF res.ok THEN Ok(TRUE, table, 1) ELSE Err("Io", table, 1),
                        is_filtered)
        /\ UNCHANGED <<table_name, table, is_filtered>>

AddPolicy ==
    \E rule \in InsRows, fail \in 0..1 :
        Apply("add_policy", [rule |-> rule, fail |-> fail],
              add_policy(table, created, rule, fail))

AddPolicies ==
    \E rules \in SeqUpTo(BatchRows, MaxBatch) :
        \E fail \in 0..(Len(rules) + 2) :
            Apply("add_policies", [rules |-> rules, fail |-> fail],
                  add_policies(table, created, rules, fail))

RemovePolicy ==
    \E pt \in DelPtypes, rule \in DelRules, fail \in 0..1 :
        Apply("remove_policy", [pt |-> pt, rule |-> rule, fail |-> fail],
              remove_policy(table, created, pt, rule, fail))

RemovePolicies ==
    \E pt \in BatchDelPtypes, rules \in SeqUpTo(BatchDelRules, MaxBatch) :
        \E fail \in 0..(Len(rules) + 2) :
            Apply("remove_policies", [pt |-> pt, rules |-> rules, fail |-> fail],
                  remove_policies(table, created, pt, rules, fail))

RemoveFilteredPolicy ==
    \E pt \in DelPtypes, field_index \in 0..(Width - 1),
       field_values \in FilterValues, fail \in 0..1 :
        Apply("remove_filtered_policy",
              [pt |-> pt, field_index |-> field_index,
               field_values |-> field_values, fail |-> fail],
              remove_filtered_policy(table, created, pt, field_index,
                                     field_values, fail))

SavePolicy ==
    \E rules \in SeqUpTo(BatchRows, MaxBatch) :
        \E fail \in 0..(Len(rules) + 3) :
            Apply("save_policy", [rules |-> rules, fail |-> fail],
                  save_policy(table, created, rules, fail))

ClearPolicy ==
    \E fail \in 0..1 :
        Apply("clear_policy", [fail |-> fail], clear_policy(table, created, fail))

LoadPolicy ==
    \E fail \in 0..1 :
        Apply("load_policy", [fail |-> fail], load_policy(table, created, fail))

LoadFilteredPolicy ==
    \E g \in GroupingFilters, p \in PolicyFilters, fail \in 0..1 :
        LET filter == [g |-> g, p |-> p]
            res    == load_filtered_policy(table, created, filter, fail)
        IN  /\ Idle
            /\ is_filtered' = FlagAfterFilteredLoad(is_filtered, res.ok)
            /\ last' = Call("load_filtered_policy",
                            [filter |-> filter, fail |-> fail], res, is_filtered)
            /\ UNCHANGED <<table_name, created, table>>

\* the caller takes the outcome of its call and may issue the next one
TakeResult ==
    /\ ~Idle
    /\ last' = NoCall
    /\ UNCHANGED <<table_name, created, table, is_filtered>>

Next ==
    \/ Provision
    \/ AddPolicy
    \/ AddPolicies
    \/ RemovePolicy
    \/ RemovePolicies
    \/ RemoveFilteredPolicy
    \/ SavePolicy
    \/ ClearPolicy
    \/ LoadPolicy
    \/ LoadFilteredPolicy
    \/ TakeResult

Spec == Init /\ [][Next]_vars

----------------------------------------------------------------------------
(* The rule conversions on their own: an input is drawn, then converted *)

\* longest rule handed to the conversions
MaxFields == 7

\* field values of the rules handed to the conversions
FieldValues == {E, A, B}

\* the record of a conversion: its input and what it returned
Pure(op, arg, val) ==
    [op |-> op, arg |-> arg, ok |-> TRUE, err |-> "", val |-> val,
     rows |-> EmptyBag, issued |-> 0, pre |-> EmptyBag, flag |-> FALSE]

\* the six v columns of a row, in order
Fields(row) == <<row.v0, row.v1, row.v2, row.v3, row.v4, row.v5>>

\* a sequence without its trailing empty strings
RECURSIVE TrimTrailing(_)
TrimTrailing(s) ==
    IF s = <<>> \/ s[Len(s)] # E THEN s
    ELSE TrimTrailing(SubSeq(s, 1, Len(s) - 1))

\* the row mapper: ptype plus v0..v5 without the trailing empty fields
to_abstract(row) == [ptype |-> row.ptype, rule |-> TrimTrailing(Fields(row))]

InitNorm ==
    /\ table_name = <<"c", "a", "s", "b", "i", "n", "_", "r", "u", "l", "e">>
    /\ created = FALSE
    /\ table = EmptyBag
    /\ is_filtered = FALSE
    /\ \E pt \in DelPtypes, rule \in SeqUpTo(FieldValues, MaxFields) :
            last = Pure("input", [pt |-> pt, rule |-> rule], <<>>)

NormalizeRule ==
    /\ last.op = "input"
    /\ last' = Pure("normalize_casbin_rule", last.arg,
                    normalize_casbin_rule(last.arg.rule))
    /\ UNCHANGED <<table_name, created, table, is_filtered>>

NormalizeRuleOption ==
    /\ last.op = "input"
    /\ last' = Pure("normalize_casbin_rule_option", last.arg,
                    normalize_casbin_rule_option(last.arg.rule))
    /\ UNCHANGED <<table_name, created, table, is_filtered>>

\* the normalised rule is stored under its ptype and mapped back
ToAbstract ==
    /\ last.op = "normalize_casbin_rule"
    /\ last' = Pure("to_abstract", last.arg,
                    to_abstract(Row(last.arg.pt, last.val)))
    /\ UNCHANGED <<table_name, created, table, is_filtered>>

NextNorm ==
    \/ NormalizeRule
    \/ NormalizeRuleOption
    \/ ToAbstract

SpecNorm == InitNorm /\ [][NextNorm]_vars

----------------------------------------------------------------------------
(* A batch call statement by statement, beside a reader that loads. The store *)
(* shows a statement sent on the pool the committed table only; what an open *)
(* transaction has written is in work until commit.                          *)

\* the statements a batch call sends when none of them stops it
Statements(op, arg) ==
    IF op = "save_policy" THEN Len(arg.rules) + 1 ELSE Len(arg.rules)

\* the filters the reader uses
TxFilters ==
    { [g |-> <<>>, p |-> <<>>], [g |-> <<A>>, p |-> <<E, E, A>>] }

\* nothing loaded yet
NotSeen == [load |-> "none", filter |-> NoArg, rows |-> EmptyBag]

\* a batch call at statement k: pc is where the function is, work the table as
\* its transaction sees it, pre the table when it began, seen the last result
\* of the reader
Running(op, arg, pc, k, work, pre, ok, err, seen) ==
    [op |-> op, arg |-> arg, pc |-> pc, k |-> k, work |-> work, pre |-> pre,
     ok |-> ok, err |-> err, seen |-> seen]

\* the call moves on: only pc, k, work and the outcome change
Step(pc, k, work, ok, err) ==
    Running(last.op, last.arg, pc, k, work, last.pre, ok, err, last.seen)

\* DELETE FROM t sent on the pool
ExecutorClearOnPool(op, j) ==
    IF op = "save_policy" /\ j = 1 THEN "pool" ELSE "transaction"

\* where statement j of a batch function is sent: .execute(&mut *transaction)
Executor(op, j) == "transaction"

\* statement j of the batch applied to table w, and whether its outcome lets
\* the function go on
BatchStatement(op, arg, j, w) ==
    IF op = "add_policies"
    THEN LET res == SqlInsert(w, arg.rules[j]) IN
         [err |-> res.err, t |-> res.t, goes |-> InsertedOne(res.n)]
    ELSE IF op = "remove_policies"
    THEN LET res == SqlDeleteExact(w, arg.pt, normalize_casbin_rule(arg.rules[j])) IN
         [err |-> res.err, t |-> res.t, goes |-> DeletedOne(res.n)]
    ELSE IF j = 1
    THEN LET res == SqlDeleteAll(w) IN
         [err |-> res.err, t |-> res.t, goes |-> TRUE]
    ELSE LET res == SqlInsert(w, arg.rules[j - 1]) IN
         [err |-> res.err, t |-> res.t, goes |-> InsertedOne(res.n)]

\* the batch calls and their arguments
BatchCalls ==
    { [op |-> "add_policies", arg |-> [rules |-> rules, fail |-> fail]] :
        rules \in SeqUpTo(BatchRows, MaxBatch), fail \in 0..(MaxBatch + 2) }
    \cup
    { [op |-> "save_policy", arg |-> [rules |-> rules, fail |-> fail]] :
        rules \in SeqUpTo(BatchRows, MaxBatch), fail \in 0..(MaxBatch + 3) }
    \cup
    { [op |-> "remove_policies", arg |-> [pt |-> pt, rules |-> rules, fail |-> fail]] :
        pt \in BatchDelPtypes, rules \in SeqUpTo(BatchDelRules, MaxBatch),
        fail \in 0..(MaxBatch + 2) }

InitTx ==
    /\ table_name = casbin_rule
    /\ created = TRUE
    /\ \E rows \in SUBSET BatchRows : table = SetToBag(rows)
    /\ is_filtered = FALSE
    /\ \E c \in BatchCalls :
            /\ c.arg.fail <= Statements(c.op, c.arg) + 2
            /\ last = Running(c.op, c.arg, "begin", 0, EmptyBag, table,
                              FALSE, "", NotSeen)

\* conn.begin()
Begin ==
    /\ last.pc = "begin"
    /\ last' = IF last.arg.fail = 1
               THEN Step("done", 0, EmptyBag, FALSE, "Io")
               ELSE Step("run", 0, table, FALSE, "")
    /\ UNCHANGED <<table_name, created, table, is_filtered>>

\* the next statement of the loop; an error or a wrong number of rows leaves
\* the function through `?`, which drops the transaction
Statement ==
    /\ last.pc = "run"
    /\ last.k < Statements(last.op, last.arg)
    /\ LET j    == last.k + 1
           pool == Executor(last.op, j) = "pool"
           on   == IF pool THEN table ELSE last.work
           st   == BatchStatement(last.op, last.arg, j, on)
           res  == Exec(created, last.arg.fail = j + 1, on, st)
       IN  IF res.err # ""
           THEN /\ last' = Step("done", j, EmptyBag, FALSE, res.err)
                /\ table' = table
           ELSE IF ~st.goes
           THEN /\ last' = Step("done", j, EmptyBag, FALSE, "RowNotFound")
                /\ table' = IF pool THEN res.t ELSE table
           ELSE /\ last' = Step("run", j, res.t, FALSE, "")
                /\ table' = IF pool THEN res.t ELSE table
    /\ UNCHANGED <<table_name, created, is_filtered>>

\* transaction.commit()
Commit ==
    /\ last.pc = "run"
    /\ last.k = Statements(last.op, last.arg)
    /\ IF last.arg.fail = last.k + 2
       THEN /\ last' = Step("done", last.k, EmptyBag, FALSE, "Io")
            /\ table' = table
       ELSE /\ last' = Step("done", last.k, EmptyBag, TRUE, "")
            /\ table' = last.work
    /\ UNCHANGED <<table_name, created, is_filtered>>

\* a concurrent caller calls load_policy
ReadAll ==
    /\ last' = [last EXCEPT !.seen =
                    [load |-> "load_policy", filter |-> NoArg,
                     rows |-> load_policy(table, created, 0).rows]]
    /\ UNCHANGED <<table_name, created, table, is_filtered>>

\* a concurrent caller calls load_filtered_policy
ReadFiltered ==
    \E filter \in TxFilters :
        LET res == load_filtered_policy(table, created, filter, 0) IN
        /\ last' = [last EXCEPT !.seen =
                        [load |-> "load_filtered_policy", filter |-> filter,
                         rows |-> res.rows]]
        /\ is_filtered' = FlagAfterFilteredLoad(is_filtered, res.ok)
        /\ UNCHANGED <<table_name, created, table>>

NextTx ==
    \/ Begin
    \/ Statement
    \/ Commit
    \/ ReadAll
    \/ ReadFiltered

SpecTx == InitTx /\ [][NextTx]_vars

----------------------------------------------------------------------------
(* Properties *)

\* the bag holding the elements of sequence s, with repetitions
BagOfSeq(s) ==
    [r \in { s[k] : k \in 1..Len(s) } |->
        Cardinality({ k \in 1..Len(s) : s[k] = r })]

\* a rule of at most six fields followed by empty fields up to six
Padded(rule) == rule \o [i \in 1..(Width - Len(rule)) |-> E]

\* row k of the list repeats a stored row or an earlier row of the list
RepeatsAt(rules, pre, k) ==
    \/ BagIn(rules[k], pre)
    \/ \E j \in 1..(k - 1) : rules[j] = rules[k]

\* C1: add_policies is all-or-nothing.  It fails exactly when the store fails
\* at one of its interactions, the table is missing, or some row repeats a
\* stored row or an earlier row of the list; when it fails the table is what
\* it was before the call, and when it succeeds the table is the old content
\* plus every row of the list.
C1_InsertManyAllOrNothing ==
    last.op = "add_policies" =>
        LET rules == last.arg.rules
            bad   == \/ last.arg.fail # 0
                     \/ (~created /\ Len(rules) > 0)
                     \/ \E k \in 1..Len(rules) : RepeatsAt(rules, last.pre, k)
        IN  /\ last.ok <=> ~bad
            /\ ~last.ok => table = last.pre
            /\ last.ok =>
                /\ last.val = TRUE
                /\ table = last.pre (+) BagOfSeq(rules)
                /\ \A k \in 1..Len(rules) : CopiesIn(rules[k], table) = 1

\* C1 witness: a two-row list whose first row was new and whose second row
\* repeats a stored row: the call failed and nothing of the list is stored
C1_Witness ==
    /\ last.op = "add_policies"
    /\ created
    /\ last.arg.fail = 0
    /\ Len(last.arg.rules) = 2
    /\ ~BagIn(last.arg.rules[1], last.pre)
    /\ BagIn(last.arg.rules[2], last.pre)
    /\ ~last.ok
    /\ table = last.pre
    /\ ~BagIn(last.arg.rules[1], table)

\* rule k of the list, padded, is not stored under pt or repeats an earlier rule
MissesAt(pt, rules, pre, k) ==
    \/ ~BagIn(Row(pt, Padded(rules[k])), pre)
    \/ \E j \in 1..(k - 1) : Padded(rules[j]) = Padded(rules[k])

\* C2: remove_policies is all-or-nothing.  A delete of the list that affects
\* no row is a RowNotFound error; on any error the table is what it was before
\* the call, rows matched by earlier deletes included; on success (true) every
\* listed rule was stored and is removed, and nothing else changed.
C2_DeleteManyAllOrNothing ==
    last.op = "remove_policies" =>
        LET rules == last.arg.rules
            pt    == last.arg.pt
            miss  == \E k \in 1..Len(rules) : MissesAt(pt, rules, last.pre, k)
            bad   == \/ last.arg.fail # 0
                     \/ (~created /\ Len(rules) > 0)
                     \/ miss
            gone  == BagOfSeq([k \in 1..Len(rules) |-> Row(pt, Padded(rules[k]))])
        IN  /\ last.ok <=> ~bad
            /\ (created /\ last.arg.fail = 0 /\ miss) => last.err = "RowNotFound"
            /\ ~last.ok => table = last.pre
            /\ last.ok =>
                /\ last.val = TRUE
                /\ table (+) gone = last.pre
                /\ \A k \in 1..Len(rules) : ~BagIn(Row(pt, Padded(rules[k])), table)

\* C2 witness: the first rule of the list was stored, the second was not; the
\* call failed with RowNotFound and the first rule's row is still stored
C2_Witness ==
    /\ last.op = "remove_policies"
    /\ created
    /\ last.arg.fail = 0
    /\ Len(last.arg.rules) = 2
    /\ BagIn(Row(last.arg.pt, Padded(last.arg.rules[1])), last.pre)
    /\ ~BagIn(Row(last.arg.pt, Padded(last.arg.rules[2])), last.pre)
    /\ ~last.ok
    /\ last.err = "RowNotFound"
    /\ table = last.pre
    /\ BagIn(Row(last.arg.pt, Padded(last.arg.rules[1])), table)

\* C3: save_policy is atomic.  It succeeds exactly when the store does not
\* fail, the table exists and no rule occurs twice in the input; on success
\* the table holds the supplied rules and nothing else; on failure the table
\* holds exactly the rows it held before the call.
C3_SavePolicyAtomic ==
    last.op = "save_policy" =>
        LET rules == last.arg.rules
            bad   == \/ last.arg.fail # 0
                     \/ ~created
                     \/ \E k \in 1..Len(rules) : \E j \in 1..(k - 1) :
                            rules[j] = rules[k]
        IN  /\ last.ok <=> ~bad
            /\ last.ok => table = BagOfSeq(rules)
            /\ ~last.ok => table = last.pre

\* C3 witness: the input holds the same rule twice and the table was not
\* empty: the call failed and the table is neither cleared nor partly refilled
C3_Witness ==
    /\ last.op = "save_policy"
    /\ created
    /\ last.arg.fail = 0
    /\ Len(last.arg.rules) = 2
    /\ last.arg.rules[1] = last.arg.rules[2]
    /\ ~BagIn(last.arg.rules[1], last.pre)
    /\ last.pre # EmptyBag
    /\ ~last.ok
    /\ table = last.pre

\* C4: no two stored rows have the same (ptype, v0..v5), whatever operations
\* ran; add_policy of a tuple that is already stored returns an error, not
\* true, and leaves the table unchanged, and add_policy of a new tuple stores it.
C4_UniqueRows ==
    /\ \A r \in DOMAIN table : table[r] = 1
    /\ last.op = "add_policy" =>
        LET rule == last.arg.rule IN
        /\ BagIn(rule, last.pre) => (~last.ok /\ table = last.pre)
        /\ (BagIn(rule, last.pre) /\ created /\ last.arg.fail = 0)
                => last.err = "Database"
        /\ (~BagIn(rule, last.pre) /\ created /\ last.arg.fail = 0)
                => (last.ok /\ last.val /\ table = last.pre (+) SetToBag({rule}))
        /\ ~last.ok => table = last.pre

\* C4 witness: add_policy of a stored tuple, the store itself working
C4_Witness ==
    /\ last.op = "add_policy"
    /\ created
    /\ last.arg.fail = 0
    /\ BagIn(last.arg.rule, last.pre)
    /\ BagCardinality(last.pre) >= 2
    /\ ~last.ok
    /\ table = last.pre

\* C5: remove_policy pads the rule to six fields and removes only the row
\* with that ptype and those six fields.  Without a store error it returns
\* true iff that row was stored (exactly one row removed), and false with the
\* table unchanged when it was not; every other row is left as it was.
C5_DeleteOneExact ==
    last.op = "remove_policy" =>
        LET target == Row(last.arg.pt, Padded(last.arg.rule)) IN
        /\ last.ok <=> (created /\ last.arg.fail = 0)
        /\ ~last.ok => table = last.pre
        /\ last.ok =>
            /\ last.val <=> BagIn(target, last.pre)
            /\ last.val <=> BagCardinality(last.pre) = BagCardinality(table) + 1
            /\ ~BagIn(target, table)
            /\ \A r \in DOMAIN last.pre :
                    r # target => CopiesIn(r, table) = CopiesIn(r, last.pre)
            /\ \A r \in DOMAIN table : BagIn(r, last.pre)
            /\ ~BagIn(target, last.pre) => table = last.pre

\* C5 witness: a two-field rule whose padded row was stored beside a row of
\* another ptype with the same six fields; only the former was removed
C5_Witness ==
    /\ last.op = "remove_policy"
    /\ last.ok
    /\ last.val
    /\ last.arg.pt = P
    /\ last.arg.rule = <<A, B>>
    /\ BagIn(Row(G, <<A, B, E, E, E, E>>), table)
    /\ ~BagIn(Row(P, <<A, B, E, E, E, E>>), table)

\* C5 second case: no such row stored, the call returns Ok(false)
C5_WitnessAbsent ==
    /\ last.op = "remove_policy"
    /\ last.ok
    /\ ~last.val
    /\ last.pre # EmptyBag
    /\ table = last.pre

\* the k-th value handed to remove_filtered_policy is present and not empty
Supplied(field_values, k) ==
    k <= Len(field_values) /\ field_values[k] # E

\* the row has the ptype and, at every position i from field_index to 5,
\* the value supplied for it (the (i - field_index + 1)-th), if one is supplied
FilterSelects(row, pt, field_index, field_values) ==
    /\ row.ptype = pt
    /\ \A i \in field_index..(Width - 1) :
            Supplied(field_values, i - field_index + 1)
                => Col(row, i) = field_values[i - field_index + 1]

\* C6: remove_filtered_policy with field_index in 0..5 removes exactly the
\* stored rows of the given ptype that agree with every supplied value at the
\* positions field_index..5 and leaves every other row as it was; it returns
\* true iff at least one row was removed; with field_index 0 and no supplied
\* value it removes every row of the ptype.
C6_DeleteFiltered ==
    last.op = "remove_filtered_policy" =>
        LET pt  == last.arg.pt
            idx == last.arg.field_index
            fv  == last.arg.field_values
            Sel(r) == FilterSelects(r, pt, idx, fv)
        IN  /\ last.ok <=> (created /\ last.arg.fail = 0)
            /\ ~last.ok => table = last.pre
            /\ last.ok =>
                /\ \A r \in DOMAIN last.pre :
                        CopiesIn(r, table) =
                            IF Sel(r) THEN 0 ELSE CopiesIn(r, last.pre)
                /\ \A r \in DOMAIN table : BagIn(r, last.pre)
                /\ last.val <=> \E r \in DOMAIN last.pre : Sel(r)
                /\ (idx = 0 /\ \A k \in 1..Width : ~Supplied(fv, k))
                        => \A r \in DOMAIN table : r.ptype # pt

\* C6 witness: field_index 1 with five values removed the two rows that agree
\* on v1..v5 and differ on v0, and kept a row of the same ptype that does not
C6_Witness ==
    /\ last.op = "remove_filtered_policy"
    /\ last.ok
    /\ last.val
    /\ last.arg.field_index = 1
    /\ last.arg.pt = P
    /\ BagCardinality(last.pre) = BagCardinality(table) + 2
    /\ BagIn(Row(P, <<A, B, E, E, E, E>>), table)

\* C6 second case: field_index 0 and only empty values, rows of both ptypes
C6_WitnessAll ==
    /\ last.op = "remove_filtered_policy"
    /\ last.ok
    /\ last.val
    /\ last.arg.field_index = 0
    /\ last.arg.field_values = <<>>
    /\ BagCardinality(last.pre) >= BagCardinality(table) + 2
    /\ table # EmptyBag

\* a rule of six fields, none empty
SixNonEmpty(rule) == Len(rule) = Width /\ \A i \in 1..Width : rule[i] # E

\* two outcomes with the same result and the same table
SameOutcome(r1, ok, val, t) == r1.ok = ok /\ r1.val = val /\ r1.t = t

\* C7: for a rule of six non-empty fields, remove_filtered_policy with
\* field_index 0 and those values, and remove_policy with that rule, give the
\* same boolean result and the same table, from every reachable table.
C7_FilteredEqualsExact ==
    /\ ( /\ last.op = "remove_filtered_policy"
         /\ last.arg.field_index = 0
         /\ SixNonEmpty(last.arg.field_values) )
        => SameOutcome(remove_policy(last.pre, created, last.arg.pt,
                                     last.arg.field_values, last.arg.fail),
                       last.ok, last.val, table)
    /\ ( /\ last.op = "remove_policy"
         /\ SixNonEmpty(last.arg.rule) )
        => SameOutcome(remove_filtered_policy(last.pre, created, last.arg.pt, 0,
                                              last.arg.rule, last.arg.fail),
                       last.ok, last.val, table)

\* C7 witness: the filtered delete with six values removed the one row that
\* has them and kept a row that differs from it in one field only
C7_Witness ==
    /\ last.op = "remove_filtered_policy"
    /\ last.arg.field_index = 0
    /\ last.arg.field_values = <<A, B, A, B, A, B>>
    /\ last.arg.pt = P
    /\ last.ok
    /\ last.val
    /\ BagIn(Row(P, <<B, B, A, B, A, B>>), table)
    /\ BagCardinality(last.pre) = BagCardinality(table) + 1

\* the string begins with character c
BeginsWith(str, c) == Len(str) >= 1 /\ str[1] = c

\* every position of the filter is empty (or past its end) or equal to the
\* row's field at that position
ExactBranch(row, f) ==
    \A i \in 0..(Width - 1) :
        (i + 1 > Len(f) \/ f[i + 1] = E) \/ Col(row, i) = f[i + 1]

\* the row is selected by one of the two branches, read as exact matches
ExactSelects(row, filter) ==
    \/ BeginsWith(row.ptype, "g") /\ ExactBranch(row, filter.g)
    \/ BeginsWith(row.ptype, "p") /\ ExactBranch(row, filter.p)

\* some value of the filter holds a LIKE metacharacter
HasWildcard(f) ==
    \E i \in 1..Len(f) : \E j \in 1..Len(f[i]) : f[i][j] \in {"%", "_"}

\* bag rows holds exactly the rows of bag t that are in set sel
ReturnsExactly(rows, t, sel) ==
    /\ \A r \in DOMAIN t :
            CopiesIn(r, rows) = IF r \in sel THEN CopiesIn(r, t) ELSE 0
    /\ \A r \in DOMAIN rows : BagIn(r, t)

IdentChars ==
    { "a", "b", "c", "d", "e", "f", "g", "h", "i", "j", "k", "l", "m",
      "n", "o", "p", "q", "r", "s", "t", "u", "v", "w", "x", "y", "z",
      "A", "B", "C", "D", "E", "F", "G", "H", "I", "J", "K", "L", "M",
      "N", "O", "P", "Q", "R", "S", "T", "U", "V", "W", "X", "Y", "Z",
      "0", "1", "2", "3", "4", "5", "6", "7", "8", "9", "_", "." }

ValidIdentifier(name) == \A i \in 1..Len(name) : name[i] \in IdentChars

\* C9: a call sends a statement to the store only if every character of the
\* table name is in [A-Za-z0-9_.].
C9_OnlyValidNamesReachStore ==
    last.issued > 0 => ValidIdentifier(table_name)

\* C10: is_filtered becomes true at every load_filtered_policy that succeeds
\* and is changed by no other step: a failed load_filtered_policy, insert,
\* delete, clear, save and provision leave it as it was; table_name never
\* changes.
C10_FlagAndNameFrame ==
    [][ /\ (last'.op = "load_filtered_policy" /\ last'.ok) => is_filtered' = TRUE
        /\ ~(last'.op = "load_filtered_policy" /\ last'.ok)
                => is_filtered' = is_filtered
        /\ table_name' = table_name ]_vars

\* C10 witness: a successful load_filtered_policy turned the flag from false
\* to true
C10_Witness ==
    /\ last.op = "load_filtered_policy"
    /\ last.ok
    /\ last.flag = FALSE
    /\ is_filtered = TRUE

\* C11: normalize_casbin_rule returns, for a rule of at most six fields, six
\* fields: the rule's fields in order, then empty strings; for a rule of more
\* than six fields it fails and returns no row.
C11_FixedWidthOrFail ==
    last.op = "normalize_casbin_rule" =>
        LET rule == last.arg.rule IN
        /\ Len(rule) <= Width =>
            /\ last.ok
            /\ Len(last.val) = Width
            /\ \A i \in 1..Width :
                    last.val[i] = IF i <= Len(rule) THEN rule[i] ELSE E
        /\ Len(rule) > Width => ~last.ok

\* C12: for a rule of at most six fields that does not end in an empty field,
\* to_abstract of the row built from the normalised rule gives back the ptype
\* and the rule; an empty field before a non-empty one is kept; a rule that
\* ends in empty fields comes back as the rule without them, and normalising
\* and mapping that result again changes nothing.
C12_RoundTrip ==
    (last.op = "to_abstract" /\ Len(last.arg.rule) <= Width) =>
        LET rule == last.arg.rule
            back == last.val.rule
            n    == Len(back)
        IN  /\ last.val.ptype = last.arg.pt
            /\ (rule = <<>> \/ rule[Len(rule)] # E) => back = rule
            /\ n <= Len(rule)
            /\ \A i \in 1..n : back[i] = rule[i]
            /\ \A i \in (n + 1)..Len(rule) : rule[i] = E
            /\ n > 0 => back[n] # E
            /\ to_abstract(Row(last.arg.pt, normalize_casbin_rule(back))) = last.val

\* C12 witness: ["", "a", ""] comes back as ["", "a"]
C12_Witness ==
    /\ last.op = "to_abstract"
    /\ last.arg.rule = <<E, A, E>>
    /\ last.val.rule = <<E, A>>

\* C18: normalize_casbin_rule_option returns, for at most six strings, six
\* entries: entry i is absent when string i is empty or i is past the end of
\* the input, and holds string i otherwise; the input without its trailing
\* empty strings gives the same result.
C18_OptionalFixedWidth ==
    (last.op = "normalize_casbin_rule_option" /\ Len(last.arg.rule) <= Width) =>
        LET rule == last.arg.rule IN
        /\ Len(last.val) = Width
        /\ \A i \in 1..Width :
                last.val[i] = IF i <= Len(rule) /\ rule[i] # E
                              THEN Some(rule[i]) ELSE None
        /\ normalize_casbin_rule_option(TrimTrailing(rule)) = last.val

\* C18 witness: ["a", ""], whose second entry is absent like the third
C18_Witness ==
    /\ last.op = "normalize_casbin_rule_option"
    /\ last.arg.rule = <<A, E>>
    /\ last.val[1] = Some(A)
    /\ last.val[2] = None
    /\ last.val[3] = None

\* C13: load_policy returns every stored row, whatever its ptype, and leaves
\* the table as it was; clear_policy, when the store does not fail, empties the
\* table whatever it held, also when it held nothing, and load_policy on the
\* table it leaves returns no row.
C13_LoadAllAndClear ==
    /\ last.op = "load_policy" =>
        /\ table = last.pre
        /\ last.ok <=> (created /\ last.arg.fail = 0)
        /\ last.ok =>
            /\ last.rows = last.pre
            /\ \A r \in DOMAIN last.pre : CopiesIn(r, last.rows) = 1
    /\ last.op = "clear_policy" =>
        /\ last.ok <=> (created /\ last.arg.fail = 0)
        /\ ~last.ok => table = last.pre
        /\ last.ok =>
            /\ table = EmptyBag
            /\ load_policy(table, created, 0).ok
            /\ load_policy(table, created, 0).rows = EmptyBag

\* C13 witness: load_policy returned three rows, one of them of a ptype that
\* begins with neither p nor g
C13_Witness ==
    /\ last.op = "load_policy"
    /\ last.ok
    /\ BagCardinality(last.rows) = 3
    /\ BagIn(Row(X, <<A, E, E, E, E, E>>), last.rows)
    /\ BagIn(Row(P, <<A, B, E, E, E, E>>), last.rows)
    /\ table = last.pre

\* C13 second case: clear_policy on a table that held rows
C13_WitnessClear ==
    /\ last.op = "clear_policy"
    /\ last.ok
    /\ BagCardinality(last.pre) >= 2
    /\ table = EmptyBag

\* C13 third case: clear_policy succeeded on an empty table
C13_WitnessClearEmpty ==
    /\ last.op = "clear_policy"
    /\ last.ok
    /\ last.pre = EmptyBag

\* the least element of a non-empty set of numbers
Min(S) == CHOOSE x \in S : \A y \in S : x <= y

\* statement k of a batch call, the earlier ones done, errors at the store or
\* does not affect exactly one row
StopsAt(op, arg, pre, up, k) ==
    \/ ~up
    \/ arg.fail = k + 1
    \/ op = "add_policies" /\ RepeatsAt(arg.rules, pre, k)
    \/ op = "remove_policies" /\ MissesAt(arg.pt, arg.rules, pre, k)
    \/ op = "save_policy" /\ k >= 2
        /\ \E j \in 1..(k - 2) : arg.rules[j] = arg.rules[k - 1]

\* C14: a call whose statement, begin or commit errors at the store returns
\* Err, never Ok.  A single-statement call sends its statement once.  A batch
\* call whose begin errors sends no statement; one stopped at statement k has
\* sent exactly k statements; one that reaches commit has sent each statement
\* once and returns Err iff commit errors.
C14_ErrorsPropagate ==
    /\ last.op \in {"add_policy", "remove_policy", "remove_filtered_policy",
                    "clear_policy", "load_policy", "load_filtered_policy"} =>
        /\ last.issued = 1
        /\ (~created \/ last.arg.fail = 1) => (~last.ok /\ last.err = "Io")
        /\ ~last.ok => (last.err # "" /\ ~last.val /\ last.rows = EmptyBag)
    /\ last.op = "provision" =>
        (last.arg.fail = 1 => (~last.ok /\ last.err # ""))
    /\ last.op \in {"add_policies", "remove_policies", "save_policy"} =>
        LET n    == Statements(last.op, last.arg)
            stop == { k \in 1..n :
                        StopsAt(last.op, last.arg, last.pre, created, k) }
        IN  /\ ~last.ok => (last.err # "" /\ ~last.val)
            /\ last.arg.fail = 1 => (~last.ok /\ last.issued = 0)
            /\ (last.arg.fail # 1 /\ stop # {}) =>
                    (~last.ok /\ last.issued = Min(stop))
            /\ (last.arg.fail # 1 /\ stop = {}) =>
                    /\ last.issued = n
                    /\ last.ok <=> last.arg.fail # n + 2

\* C14 witness: add_policies of two rows, the store failing at the first
\* INSERT: Err, one statement sent, the second row never sent
C14_Witness ==
    /\ last.op = "add_policies"
    /\ created
    /\ Len(last.arg.rules) = 2
    /\ last.arg.fail = 2
    /\ ~BagIn(last.arg.rules[2], last.pre)
    /\ ~last.ok
    /\ last.err = "Io"
    /\ last.issued = 1

\* C14 second case: add_policy, the store failing at its INSERT
C14_WitnessOne ==
    /\ last.op = "add_policy"
    /\ created
    /\ last.arg.fail = 1
    /\ ~BagIn(last.arg.rule, last.pre)
    /\ ~last.ok

\* C17: for field_index in 0..5 the statement of remove_filtered_policy has
\* 7 - field_index placeholders, ptype and then v_field_index .. v5 in order,
\* and as many values are bound: ptype, then for k = 1 .. 6 - field_index the
\* k-th supplied value to column v_(field_index + k - 1), absent when that
\* value is empty or not supplied; later values are not bound; the store
\* accepts the statement.
C17_PlaceholdersAndBinds ==
    last.op = "remove_filtered_policy" =>
        LET idx   == last.arg.field_index
            fv    == last.arg.field_values
            cols  == FilteredColumns(idx)
            binds == FilteredBinds(idx, normalize_casbin_rule_option(fv))
        IN  /\ 1 + Len(cols) = 7 - idx
            /\ 1 + Len(binds) = 7 - idx
            /\ \A k \in 1..(Width - idx) :
                /\ cols[k] = idx + k - 1
                /\ binds[k] = IF Supplied(fv, k) THEN Some(fv[k]) ELSE None
            /\ last.err # "Database"
            /\ last.ok <=> (created /\ last.arg.fail = 0)

\* C17 witness: field_index 4 with six values: the first two are bound, to
\* v4 and v5, and a row that has them there but not the first value at v0 was
\* removed
C17_Witness ==
    /\ last.op = "remove_filtered_policy"
    /\ last.arg.field_index = 4
    /\ last.arg.field_values = <<A, B, A, B, A, B>>
    /\ last.arg.pt = P
    /\ last.ok
    /\ last.val
    /\ BagIn(Row(P, <<B, B, A, B, A, B>>), last.pre)
    /\ ~BagIn(Row(P, <<B, B, A, B, A, B>>), table)
    /\ BagIn(Row(P, <<A, B, E, E, E, E>>), table)

\* C19: remove_policies given a list in which two rules pad to the same six
\* fields fails and leaves the table as it was, also when that rule was
\* stored (the error is then RowNotFound, the store working); remove_policies
\* and add_policies given the empty list return true and leave the table as
\* it was.
C19_DuplicatesAndEmptyLists ==
    /\ last.op = "remove_policies" =>
        LET rules == last.arg.rules
            dup   == \E k \in 1..Len(rules) : \E j \in 1..(k - 1) :
                        Padded(rules[j]) = Padded(rules[k])
        IN  /\ dup => (~last.ok /\ table = last.pre)
            /\ (dup /\ created /\ last.arg.fail = 0) => last.err = "RowNotFound"
    /\ ( /\ last.op \in {"remove_policies", "add_policies"}
         /\ last.arg.rules = <<>>
         /\ last.arg.fail = 0 )
        => (last.ok /\ last.val = TRUE /\ table = last.pre /\ last.issued = 0)

\* C19 witness: the list [a, b], [a, b, ""] with the row p(a, b) stored: the
\* call failed with RowNotFound and the row is still stored
C19_Witness ==
    /\ last.op = "remove_policies"
    /\ created
    /\ last.arg.fail = 0
    /\ last.arg.rules = << <<A, B>>, <<A, B, E>> >>
    /\ BagIn(Row(P, <<A, B, E, E, E, E>>), last.pre)
    /\ ~last.ok
    /\ last.err = "RowNotFound"
    /\ BagIn(Row(P, <<A, B, E, E, E, E>>), table)

\* C19 second case: remove_policies of the empty list on a table with rows
C19_WitnessEmpty ==
    /\ last.op = "remove_policies"
    /\ last.arg.rules = <<>>
    /\ last.arg.fail = 0
    /\ last.ok
    /\ last.pre # EmptyBag

\* C16: for the same table name, table content and filter, the sqlite and
\* mysql variants of load_filtered_policy give the result of the postgres
\* variant: the same Ok or Err, the same rows, the table as it was.  Stated for
\* the table names of [A-Za-z0-9_.].
C16_DialectParity ==
    (last.op = "load_filtered_policy" /\ ValidIdentifier(table_name)) =>
        LET lite == load_filtered_policy_sqlite(last.pre, created, table_name,
                                                last.arg.filter, last.arg.fail)
            my   == load_filtered_policy_mysql(last.pre, created, table_name,
                                               last.arg.filter, last.arg.fail)
        IN  /\ lite.ok = last.ok /\ lite.rows = last.rows /\ lite.t = table
            /\ my.ok = last.ok /\ my.rows = last.rows /\ my.t = table

\* the table after every mutation of the batch, applied to table pre
WholeBatch(op, arg, pre) ==
    IF op = "add_policies" THEN pre (+) BagOfSeq(arg.rules)
    ELSE IF op = "save_policy" THEN BagOfSeq(arg.rules)
    ELSE Restrict(pre, DOMAIN pre \
            { Row(arg.pt, Padded(arg.rules[k])) : k \in 1..Len(arg.rules) })

\* what the load recorded in seen returns on table t
Loaded(seen, t) ==
    IF seen.load = "load_policy" THEN t
    ELSE Restrict(t, { r \in DOMAIN t : ExactSelects(r, seen.filter) })

\* C15: whatever the interleaving of the statements of add_policies,
\* remove_policies or save_policy with the loads of a concurrent reader, a load
\* returns what it would return on the table without any of the batch's
\* mutations or, once the batch has committed, on the table with all of them;
\* the committed table is the one before the call until the call ends, and the
\* call ends as the call run alone does.
C15_NoPartialBatchSeen ==
    LET all == WholeBatch(last.op, last.arg, last.pre)
        committed == last.pc = "done" /\ last.ok
    IN  /\ last.seen.load # "none" =>
            \/ last.seen.rows = Loaded(last.seen, last.pre)
            \/ committed /\ last.seen.rows = Loaded(last.seen, all)
        /\ table = IF committed THEN all ELSE last.pre
        /\ last.pc = "done" =>
            LET alone ==
                    IF last.op = "add_policies"
                    THEN add_policies(last.pre, created, last.arg.rules, last.arg.fail)
                    ELSE IF last.op = "save_policy"
                    THEN save_policy(last.pre, created, last.arg.rules, last.arg.fail)
                    ELSE remove_policies(last.pre, created, last.arg.pt,
                                         last.arg.rules, last.arg.fail)
            IN  /\ alone.ok = last.ok
                /\ alone.err = last.err
                /\ alone.t = table

\* C15 witness: save_policy of two rows has cleared the table and inserted
\* one row in its transaction, and a load_policy of the reader returned
\* the two rows the table held before the call
C15_Witness ==
    /\ last.op = "save_policy"
    /\ last.pc = "run"
    /\ last.k = 2
    /\ Len(last.arg.rules) = 2
    /\ BagCardinality(last.work) = 1
    /\ BagCardinality(last.pre) = 2
    /\ ~BagIn(last.arg.rules[1], last.pre)
    /\ last.seen.load = "load_policy"
    /\ last.seen.rows = last.pre

\* C15 second case: remove_policies rolled back after its first DELETE, and a
\* load_filtered_policy meanwhile returned the row that DELETE had matched
C15_WitnessRollback ==
    /\ last.op = "remove_policies"
    /\ last.pc = "done"
    /\ last.err = "RowNotFound"
    /\ last.k = 2
    /\ last.seen.load = "load_filtered_policy"
    /\ BagIn(Row(P, Padded(last.arg.rules[1])), last.seen.rows)

============================================================================
